---- MODULE Spec2Model ----
(***************************************************************************)
(* Model of the document translation service (src/translation-service):    *)
(* the chunker and the concurrent LLM-backed translate call of             *)
(* app/translator.py, and the request handler with its fetch/put gateway   *)
(* of app/main.py.                                                         *)
(*                                                                         *)
(* Strings are sequences of integers (code points), byte strings are       *)
(* sequences of integers (byte values).                                    *)
(***************************************************************************)
EXTENDS Integers, Sequences, FiniteSets, TLC

\* Longest text handed to the chunker on its own.
MaxLen == 80
\* Largest chunk budget (CHUNK_CHARS) tried.
MaxBudget == 41

VARIABLES
    req,         \* the requests: form fields, locals, network calls, response
    clock,       \* time.time() * 1000 when it was last read
    env,         \* the process configuration (environment, installed modules)
    text,        \* _chunks() argument `text`
    chunk_chars, \* BedrockSeaLionTranslator.chunk_chars
    chunks,      \* the list `chunks` of _chunks, its result in the end
    ck_i,        \* the loop variable i of _chunks
    ck_pc        \* "start" before _chunks is called, "loop", "done" after

vars == <<req, clock, env, text, chunk_chars, chunks, ck_i, ck_pc>>

Min(a, b) == IF a < b THEN a ELSE b

(***************************************************************************)
(* Python slice text[i:j] for 0 <= i, i <= j: 0-based, j exclusive,        *)
(* clipped to the end of the text.                                         *)
(***************************************************************************)
Slice(s, i, j) == SubSeq(s, i + 1, Min(j, Len(s)))

\* An overlap of half the budget.
OverlapHalf(n) == n \div 2

(***************************************************************************)
(* translator.py:35  overlap = int(n * 0.05); for n >= 0 the float product *)
(* truncated equals n \div 20.                                             *)
(***************************************************************************)
OverlapOf(n) == n \div 20

\* translator.py:31  the test of the short-text branch; a variant that
\* misses the case of equal lengths
FitsBudgetStrict(s, n) == Len(s) < n
FitsBudget(s, n) == Len(s) <= n

\* translator.py:36  the loop condition; a variant that makes one more pass
\* when i has reached the end of the text
LoopCondInclusive(s, i) == i <= Len(s)
LoopCond(s, i) == i < Len(s)

\* translator.py:37  the window appended: text[i:i + n]
Window(s, n, i) == Slice(s, i, i + n)

\* translator.py:38  i += n - overlap; a variant that adds the overlap
AdvanceGap(n, overlap, i) == i + (n + overlap)
Advance(n, overlap, i) == i + (n - overlap)

(***************************************************************************)
(* translator.py:36-38, the while loop of _chunks, run to its end          *)
(***************************************************************************)
RECURSIVE ChunkLoop(_, _, _, _, _)
ChunkLoop(s, n, overlap, i, acc) ==
    IF LoopCond(s, i)
    THEN ChunkLoop(s, n, overlap, Advance(n, overlap, i), Append(acc, Window(s, n, i)))
    ELSE acc

(***************************************************************************)
(* translator.py:29-39  BedrockSeaLionTranslator._chunks, as one call      *)
(***************************************************************************)
_chunks(s, n) ==
    IF FitsBudget(s, n) THEN <<s>> ELSE ChunkLoop(s, n, OverlapOf(n), 0, <<>>)

(***************************************************************************)
(* Strings of the request (header, URLs, file names) are sequences of      *)
(* tokens; "." and "/" and " " are tokens of their own.  None and the      *)
(* empty string are both <<>>: the handler only ever tests them for        *)
(* truthiness.                                                             *)
(***************************************************************************)
None == <<>>

\* main.py:19  API_KEY = os.getenv("TRANSLATE_API_KEY", "devkey")
API_KEY == <<"devkey">>

\* main.py:20  MAX_BYTES as configured in the environments checked, scaled
\* down from 50 MiB to a few bytes; env.max_bytes is the value in force
MAX_BYTES == 3

\* main.py:70  iter_chunked(1 << 16): largest increment of the streaming read,
\* scaled down
ITER_CHUNK == 2

\* main.py:21  ALLOWED_EXTS
ALLOWED_EXTS ==
    { <<".", "pdf">>, <<".", "txt">>, <<".", "md">>, <<".", "rtf">>,
      <<".", "html">>, <<".", "htm">>, <<".", "docx">> }

\* main.py:22-25  ALLOWED_URL_HOSTS, the default glob patterns
ALLOWED_URL_HOSTS ==
    << <<"s3", ".", "amazonaws", ".", "com">>,
       <<"*", ".", "s3", ".", "amazonaws", ".", "com">>,
       <<"s3", ".", "*", ".", "amazonaws", ".", "com">>,
       <<"*", ".", "s3", ".", "*", ".", "amazonaws", ".", "com">> >>

StartsWith(s, pre) == Len(s) >= Len(pre) /\ SubSeq(s, 1, Len(pre)) = pre

\* str.lower() on the tokens that occur in file names
LowerTok(t) ==
    CASE t = "TXT" -> "txt"
      [] t = "PDF" -> "pdf"
      [] OTHER -> t

Lower(s) == [k \in 1..Len(s) |-> LowerTok(s[k])]

\* str.rfind(tok): the last 1-based index of tok in s, 0 when absent
\* (Python's -1)
RFind(s, tok) ==
    LET hits == {k \in 1..Len(s) : s[k] = tok}
    IN  IF hits = {} THEN 0 ELSE CHOOSE k \in hits : \A j \in hits : j <= k

\* first 1-based index of tok in s at or after position from, 0 when absent
FindFrom(s, tok, from) ==
    LET hits == {k \in from..Len(s) : s[k] = tok}
    IN  IF hits = {} THEN 0 ELSE CHOOSE k \in hits : \A j \in hits : k <= j

(***************************************************************************)
(* main.py:30-35  ensure_auth: 0 when the header is accepted, else the     *)
(* status of the HTTPException raised.                                     *)
(***************************************************************************)
\* A check that accepts every bearer token.
EnsureAuthAnyBearer(auth_header) ==
    IF auth_header = <<>> \/ ~StartsWith(auth_header, <<"Bearer", " ">>)
    THEN 401
    ELSE 0

ensure_auth(auth_header) ==
    IF auth_header = <<>> \/ ~StartsWith(auth_header, <<"Bearer", " ">>)
    THEN 401
    ELSE IF SubSeq(auth_header, 3, Len(auth_header)) # API_KEY
         THEN 403
         ELSE 0

(***************************************************************************)
(* main.py:38-41  ext_from_name                                            *)
(***************************************************************************)
ext_from_name(name) ==
    LET dot == RFind(name, ".")
    IN  IF dot # 0 THEN Lower(SubSeq(name, dot, Len(name))) ELSE <<>>

(***************************************************************************)
(* urllib.parse.urlparse(url).hostname and .path.split("/")[-1] for URLs   *)
(* of the shape scheme "//" host "/" path.                                 *)
(***************************************************************************)
Hostname(url) ==
    LET a == FindFrom(url, "//", 1)
        b == IF a = 0 THEN 0 ELSE FindFrom(url, "/", a + 1)
    IN  IF a = 0 THEN <<>>
        ELSE IF b = 0 THEN SubSeq(url, a + 1, Len(url))
        ELSE SubSeq(url, a + 1, b - 1)

PathTail(url) ==
    LET a == FindFrom(url, "//", 1)
        b == IF a = 0 THEN 0 ELSE FindFrom(url, "/", a + 1)
    IN  IF b = 0 THEN <<>> ELSE SubSeq(url, RFind(url, "/") + 1, Len(url))

(***************************************************************************)
(* fnmatch.fnmatch(name, pat) for patterns whose only wildcard is "*"      *)
(***************************************************************************)
RECURSIVE FnMatch(_, _)
FnMatch(name, pat) ==
    IF pat = <<>> THEN name = <<>>
    ELSE IF Head(pat) = "*"
         THEN \E k \in 0..Len(name) :
                  FnMatch(SubSeq(name, k + 1, Len(name)), Tail(pat))
         ELSE /\ name # <<>>
              /\ Head(name) = Head(pat)
              /\ FnMatch(Tail(name), Tail(pat))

\* A host check that accepts every host.
HostAllowedAny(url) == TRUE

(***************************************************************************)
(* main.py:44-46  host_allowed                                             *)
(***************************************************************************)
host_allowed(url) ==
    LET host == Hostname(url)
    IN  \E k \in 1..Len(ALLOWED_URL_HOSTS) : FnMatch(host, ALLOWED_URL_HOSTS[k])

(***************************************************************************)
(* hashlib.sha256(raw).hexdigest(): an injective digest of the byte        *)
(* strings of the model, written with the lowercase hex letters 10..15     *)
(* (their uppercase forms are 26..31).  Bytes of the model are below 6     *)
(* after reduction, so distinct byte strings have distinct digests.        *)
(***************************************************************************)
HexByte(b) == IF b = 97 THEN 10 ELSE IF b = 98 THEN 11 ELSE 12

Sha256Hex(raw) == <<10 + Len(raw)>> \o [k \in 1..Len(raw) |-> HexByte(raw[k])]

\* str.lower() / str.upper() on hex strings
HexLower(h) == [k \in 1..Len(h) |-> IF h[k] >= 26 THEN h[k] - 16 ELSE h[k]]
HexUpper(h) == [k \in 1..Len(h) |-> IF h[k] >= 10 /\ h[k] < 16 THEN h[k] + 16 ELSE h[k]]

\* An integrity test that accepts every digest.
IntegrityAlwaysOk(raw, integrity_sha256) == TRUE

\* main.py:132  the integrity test: TRUE when the request may proceed
IntegrityOk(raw, integrity_sha256) ==
    ~(integrity_sha256 # <<>> /\ Sha256Hex(raw) # HexLower(integrity_sha256))

(***************************************************************************)
(* UTF-8.  bytes.decode("utf-8", errors="ignore") with one- and two-byte   *)
(* forms; a byte that starts no valid form is dropped.  The strict decode  *)
(* of line 38 of parsers.py returns the same text when nothing is dropped  *)
(* and raises otherwise, after which the lenient decode is used.           *)
(***************************************************************************)
IsCont(b) == b >= 128 /\ b <= 191

RECURSIVE DecodeIgnore(_)
DecodeIgnore(data) ==
    IF data = <<>> THEN <<>>
    ELSE LET b == Head(data)
         IN  IF b < 128 THEN <<b>> \o DecodeIgnore(Tail(data))
             ELSE IF b >= 194 /\ b <= 223 /\ Len(data) >= 2 /\ IsCont(data[2])
                  THEN <<(b - 192) * 64 + (data[2] - 128)>>
                           \o DecodeIgnore(SubSeq(data, 3, Len(data)))
                  ELSE DecodeIgnore(Tail(data))

\* str.encode("utf-8") for code points below 2048
RECURSIVE EncodeUtf8(_)
EncodeUtf8(s) ==
    IF s = <<>> THEN <<>>
    ELSE LET c == Head(s)
         IN  (IF c < 128 THEN <<c>> ELSE <<192 + (c \div 64), 128 + (c % 64)>>)
                 \o EncodeUtf8(Tail(s))

(***************************************************************************)
(* parsers.py:40-43  choose_output_ext_and_mime                            *)
(***************************************************************************)
\* A choice that gives Markdown whatever the preference.
ChooseAlwaysMarkdown(preserve_format) == << <<".", "md">>, "text/markdown" >>

choose_output_ext_and_mime(preserve_format) ==
    IF preserve_format = "markdown"
    THEN << <<".", "md">>, "text/markdown" >>
    ELSE << <<".", "txt">>, "text/plain" >>

(***************************************************************************)
(* "\n".join(parts)                                                        *)
(***************************************************************************)
NL == 10

RECURSIVE JoinNL(_)
JoinNL(parts) ==
    IF parts = <<>> THEN <<>>
    ELSE IF Len(parts) = 1 THEN parts[1]
    ELSE parts[1] \o <<NL>> \o JoinNL(Tail(parts))

(***************************************************************************)
(* Requests.  req[r] holds the form fields of request r, the local         *)
(* variables of its translate_file call and of its do_work coroutine, the  *)
(* network calls made on its behalf (net) and its response (resp).         *)
(***************************************************************************)
Reqs == {1, 2}

NoFile == [present |-> FALSE, filename |-> <<>>, data |-> <<>>]

NoResp == [status |-> 0, kind |-> "none"]

ErrorResp(status) == [status |-> status, kind |-> "error"]

\* record q with the fields of f replaced
Merge(q, f) == [k \in DOMAIN q |-> IF k \in DOMAIN f THEN f[k] ELSE q[k]]

\* A request that was never made.
Absent ==
    [ entry |-> "none", pc |-> "absent",
      authorization |-> <<>>, file_url |-> <<>>, output_url |-> <<>>,
      file |-> NoFile, preserve_format |-> "markdown", return_mode |-> "async",
      integrity_sha256 |-> <<>>,
      filename |-> <<>>, size |-> 0, read |-> 0, fchunks |-> <<>>, raw |-> <<>>,
      translator |-> "none", job_id |-> 0, resp |-> NoResp, failed_at |-> "none",
      wk |-> "none", exc |-> 0, exc_detail |-> <<>>, raised_at |-> "none",
      fmt |-> "none", txt |-> <<>>,
      tchunks |-> <<>>, tasks |-> <<>>, order |-> <<>>,
      translated_text |-> <<>>, out_bytes |-> <<>>, out_mime |-> "none",
      out_name |-> <<>>, net |-> <<>> ]

\* A translate_file request as it arrives, with form fields f.
Arrived(f) == Merge(Merge(Absent, f), [entry |-> "translate_file", pc |-> "received"])

Step(r, f) == req' = [req EXCEPT ![r] = Merge(req[r], f) ]

\* raise HTTPException(status) (or, status 500, any other exception) out of
\* the call that request r entered, after assigning the fields of f (<<>>:
\* none); failed_at records the step that raised
FailWith(r, status, f) ==
    req' = [req EXCEPT ![r] =
               Merge(Merge(req[r], f),
                     [pc |-> "responded", resp |-> ErrorResp(status),
                      failed_at |-> req[r].pc])]

Fail(r, status) == FailWith(r, status, <<>>)

Log(r, call) == Append(req[r].net, call)

(***************************************************************************)
(* main.py:105  ensure_auth(authorization)                                 *)
(***************************************************************************)
EnsureAuth(r) ==
    /\ req[r].pc = "received"
    /\ LET st == ensure_auth(req[r].authorization)
       IN  IF st # 0 THEN Fail(r, st) ELSE Step(r, [pc |-> "authorized"])
    /\ UNCHANGED <<clock, env, text, chunk_chars, chunks, ck_i, ck_pc>>

(***************************************************************************)
(* main.py:107-112  a source must be present; the effective file name      *)
(***************************************************************************)
EffectiveName(q) ==
    IF q.file.present /\ q.file.filename # <<>> THEN q.file.filename
    ELSE IF q.file_url # <<>> THEN PathTail(q.file_url)
    ELSE <<"file">>

CheckSource(r) ==
    /\ req[r].pc = "authorized"
    /\ IF req[r].file_url = <<>> /\ ~req[r].file.present
       THEN Fail(r, 400)
       ELSE Step(r, [pc |-> "named", filename |-> EffectiveName(req[r])])
    /\ UNCHANGED <<clock, env, text, chunk_chars, chunks, ck_i, ck_pc>>

(***************************************************************************)
(* main.py:114-116  extension allow-list                                   *)
(***************************************************************************)
CheckExt(r) ==
    /\ req[r].pc = "named"
    /\ LET ext == ext_from_name(req[r].filename)
       IN  IF ext # <<>> /\ ext \notin ALLOWED_EXTS
           THEN Fail(r, 415)
           ELSE Step(r, [pc |-> IF req[r].file_url # <<>> THEN "url_host" ELSE "source"])
    /\ UNCHANGED <<clock, env, text, chunk_chars, chunks, ck_i, ck_pc>>

(***************************************************************************)
(* main.py:118-120  host allow-list for file_url                           *)
(***************************************************************************)
CheckUrlHost(r) ==
    /\ req[r].pc = "url_host"
    /\ IF ~host_allowed(req[r].file_url)
       THEN Fail(r, 400)
       ELSE Step(r, [pc |-> "head"])
    /\ UNCHANGED <<clock, env, text, chunk_chars, chunks, ck_i, ck_pc>>

(***************************************************************************)
(* main.py:49-57 head_info and main.py:121-123.  The server answers with   *)
(* any status and any Content-Length (cl = -1: no such header); "raise"    *)
(* is a transport failure.                                                 *)
(***************************************************************************)
HeadAnswers ==
    [status : {200, 404}, cl : {-1, 0, MAX_BYTES, MAX_BYTES + 1}, raises : {FALSE}]
        \cup {[status |-> 0, cl |-> -1, raises |-> TRUE]}

\* head_info's first result: 0 stands for None (both are falsy at line 122)
HeadSize(a) == IF a.status >= 400 \/ a.cl = -1 THEN 0 ELSE a.cl

\* The declared-size test with the comparison dropped.
DeclaredTooLargeNever(size) == FALSE

\* main.py:122  size and size > MAX_BYTES (as configured)
DeclaredTooLarge(size) == size # 0 /\ size > env.max_bytes

HeadInfo(r) ==
    /\ req[r].pc = "head"
    /\ \E a \in HeadAnswers :
          LET net1 == Log(r, [op |-> "HEAD", url |-> req[r].file_url])
          IN  IF a.raises
              THEN FailWith(r, 500, [net |-> net1])
              ELSE IF DeclaredTooLarge(HeadSize(a))
              THEN FailWith(r, 413, [size |-> HeadSize(a), net |-> net1])
              ELSE Step(r, [pc |-> "source", size |-> HeadSize(a), net |-> net1])
    /\ UNCHANGED <<clock, env, text, chunk_chars, chunks, ck_i, ck_pc>>

(***************************************************************************)
(* main.py:125-130  read the upload, or call fetch_bytes                   *)
(***************************************************************************)
\* The measured-size test with the comparison dropped.
TooLargeNever(n) == FALSE

\* main.py:72 and main.py:127  read > max_bytes, len(raw) > MAX_BYTES
TooLarge(n) == n > env.max_bytes

ReadSource(r) ==
    /\ req[r].pc = "source"
    /\ IF req[r].file.present
       THEN IF TooLarge(Len(req[r].file.data))
            THEN Fail(r, 413)
            ELSE Step(r, [pc |-> "integrity", raw |-> req[r].file.data])
       ELSE Step(r, [pc |-> "fetch_host"])
    /\ UNCHANGED <<clock, env, text, chunk_chars, chunks, ck_i, ck_pc>>

(***************************************************************************)
(* main.py:60-75  fetch_bytes                                              *)
(***************************************************************************)
FetchHostCheck(r) ==
    /\ req[r].pc = "fetch_host"
    /\ IF ~host_allowed(req[r].file_url)
       THEN Fail(r, 400)
       ELSE Step(r, [pc |-> "get"])
    /\ UNCHANGED <<clock, env, text, chunk_chars, chunks, ck_i, ck_pc>>

\* main.py:65-69  the GET and its status; 0 is a transport failure
FetchGet(r) ==
    /\ req[r].pc = "get"
    /\ \E status \in {0, 200, 404} :
          LET net1 == Log(r, [op |-> "GET", url |-> req[r].file_url])
          IN  IF status = 0
              THEN FailWith(r, 500, [net |-> net1])
              ELSE IF status # 200
              THEN FailWith(r, 400, [net |-> net1])
              ELSE Step(r, [pc |-> "stream", read |-> 0, fchunks |-> <<>>, net |-> net1])
    /\ UNCHANGED <<clock, env, text, chunk_chars, chunks, ck_i, ck_pc>>

\* the byte values a served document is made of
ServedBytes == {97}

\* the increments iter_chunked can deliver: 1..ITER_CHUNK bytes
Increments ==
    UNION {[1..n -> ServedBytes] : n \in 1..ITER_CHUNK}

RECURSIVE Concat(_)
Concat(parts) == IF parts = <<>> THEN <<>> ELSE Head(parts) \o Concat(Tail(parts))

\* main.py:70-74  one iteration of the streaming loop
FetchChunk(r) ==
    /\ req[r].pc = "stream"
    /\ \E chunk \in Increments :
          LET read1 == req[r].read + Len(chunk)
          IN  IF TooLarge(read1)
              THEN FailWith(r, 413, [read |-> read1])
              ELSE Step(r, [read |-> read1, fchunks |-> Append(req[r].fchunks, chunk)])
    /\ UNCHANGED <<clock, env, text, chunk_chars, chunks, ck_i, ck_pc>>

\* main.py:75  the stream ended: return b"".join(chunks)
FetchEnd(r) ==
    /\ req[r].pc = "stream"
    /\ IF req[r].entry = "fetch_bytes"
       THEN Step(r, [pc |-> "responded", raw |-> Concat(req[r].fchunks),
                     resp |-> [status |-> 200, kind |-> "fetched"]])
       ELSE Step(r, [pc |-> "integrity", raw |-> Concat(req[r].fchunks)])
    /\ UNCHANGED <<clock, env, text, chunk_chars, chunks, ck_i, ck_pc>>

(***************************************************************************)
(* main.py:132-133  integrity digest                                       *)
(***************************************************************************)
\* An integrity check made after the translator has been constructed.
CheckIntegrityAfterSelect(r) ==
    /\ req[r].pc = "integrity"
    /\ IF ~IntegrityOk(req[r].raw, req[r].integrity_sha256)
       THEN FailWith(r, 400, [translator |-> IF env.use_bedrock THEN "bedrock"
                                                                 ELSE "passthrough"])
       ELSE Step(r, [pc |-> "translator"])
    /\ UNCHANGED <<clock, env, text, chunk_chars, chunks, ck_i, ck_pc>>

CheckIntegrity(r) ==
    /\ req[r].pc = "integrity"
    /\ IF ~IntegrityOk(req[r].raw, req[r].integrity_sha256)
       THEN Fail(r, 400)
       ELSE Step(r, [pc |-> "translator"])
    /\ UNCHANGED <<clock, env, text, chunk_chars, chunks, ck_i, ck_pc>>

(***************************************************************************)
(* translator.py:19-27 and 82-88.  Constructing the LLM-backed translator  *)
(* raises without boto3, without a region, when boto3.client raises and    *)
(* when CHUNK_CHARS is no integer; get_translator catches the exception    *)
(* and falls back to the pass-through translator.                          *)
(***************************************************************************)
BedrockConstructs(e) ==
    e.boto3 /\ e.region # <<>> /\ e.client_ok /\ e.chunk_chars_parses

\* A selection that ignores the configuration switch.
GetTranslatorAlwaysBedrock(e) == "bedrock"

\* A selection without the except clause: the exception of the constructor
\* leaves get_translator.
GetTranslatorUnguarded(e) ==
    IF e.use_bedrock
    THEN IF BedrockConstructs(e) THEN "bedrock" ELSE "raised"
    ELSE "passthrough"

get_translator(e) ==
    IF e.use_bedrock /\ BedrockConstructs(e) THEN "bedrock" ELSE "passthrough"

\* main.py:135  translator = get_translator(); an exception of the call
\* would leave the handler
GetTranslator(r) ==
    /\ req[r].pc = "translator"
    /\ LET t == get_translator(env)
       IN  IF t = "raised" THEN Fail(r, 500)
           ELSE Step(r, [pc |-> "dispatch", translator |-> t])
    /\ UNCHANGED <<clock, env, text, chunk_chars, chunks, ck_i, ck_pc>>

\* Largest value of the millisecond clock.
MaxClock == 2

(***************************************************************************)
(* main.py:152-157.  async: read the clock, create the background task,    *)
(* answer "queued".  Otherwise await do_work().  The clock never runs      *)
(* backwards; it may have advanced by any amount since it was last read.   *)
(***************************************************************************)
\* A dispatch that awaits do_work() in every return mode.
DispatchAwaiting(r) ==
    /\ req[r].pc = "dispatch"
    /\ Step(r, [pc |-> "await_work", wk |-> "extract"])
    /\ UNCHANGED <<clock, env, text, chunk_chars, chunks, ck_i, ck_pc>>

Dispatch(r) ==
    /\ req[r].pc = "dispatch"
    /\ IF req[r].return_mode = "async"
       THEN \E now \in clock..MaxClock :
               /\ clock' = now
               /\ Step(r, [pc |-> "responded", job_id |-> now, wk |-> "extract",
                           resp |-> [status |-> 200, kind |-> "queued", job_id |-> now]])
       ELSE /\ Step(r, [pc |-> "await_work", wk |-> "extract"])
            /\ UNCHANGED clock
    /\ UNCHANGED <<env, text, chunk_chars, chunks, ck_i, ck_pc>>

\* an exception leaves do_work (status: that of an HTTPException, else 500);
\* f holds the other fields assigned by then (<<>>: none)
WorkRaise(r, status, f) ==
    req' = [req EXCEPT ![r] =
               Merge(Merge(req[r], f),
                     [wk |-> "raised", exc |-> status, raised_at |-> req[r].wk])]

(***************************************************************************)
(* parsers.py:15-37  extract_text_from_bytes.  The text layer of a PDF or  *)
(* DOCX document is taken to be its valid characters; a corrupt document   *)
(* makes the parser raise.                                                 *)
(***************************************************************************)
ParsedText(data) == DecodeIgnore(data)

\* An extraction that reads the bytes from a buffer shared by the
\* requests, which holds what the first request read.
ExtractShared(r) ==
    /\ req[r].wk = "extract"
    /\ Step(r, [wk |-> "translate", fmt |-> "raw", txt |-> DecodeIgnore(req[1].raw)])
    /\ UNCHANGED <<clock, env, text, chunk_chars, chunks, ck_i, ck_pc>>

Extract(r) ==
    /\ req[r].wk = "extract"
    /\ LET ext == ext_from_name(req[r].filename)
       IN  IF ext = <<".", "pdf">> /\ env.fitz
           THEN \/ WorkRaise(r, 500, [fmt |-> "pdf"])
                \/ Step(r, [wk |-> "translate", fmt |-> "pdf", txt |-> ParsedText(req[r].raw)])
           ELSE IF ext = <<".", "docx">> /\ env.docx
           THEN \/ WorkRaise(r, 500, [fmt |-> "docx"])
                \/ Step(r, [wk |-> "translate", fmt |-> "docx", txt |-> ParsedText(req[r].raw)])
           ELSE Step(r, [wk |-> "translate", fmt |-> "raw", txt |-> DecodeIgnore(req[r].raw)])
    /\ UNCHANGED <<clock, env, text, chunk_chars, chunks, ck_i, ck_pc>>

(***************************************************************************)
(* translator.py:41-59 and 77-79  translate.  The pass-through translator  *)
(* returns the text; the LLM-backed one builds one task per chunk and      *)
(* awaits asyncio.gather.                                                  *)
(***************************************************************************)
Pending == [st |-> "pending", val |-> <<>>]

\* A pass-through translator that loses the last character.
PassThroughTruncating(txt) == IF txt = <<>> THEN <<>> ELSE SubSeq(txt, 1, Len(txt) - 1)

\* translator.py:77-79  PassThroughTranslator.translate: return text
PassThroughTranslate(txt) == txt

\* what translate() returns to: do_work, or the caller of a bare translate()
AfterTranslate(r) == IF req[r].entry = "translate" THEN "returned" ELSE "encode"

Translate(r) ==
    /\ req[r].wk = "translate"
    /\ IF req[r].translator = "passthrough"
       THEN Step(r, [wk |-> AfterTranslate(r),
                     translated_text |-> PassThroughTranslate(req[r].txt)])
       ELSE LET cs == _chunks(req[r].txt, env.chunk_chars)
            IN  Step(r, [wk |-> "gather", tchunks |-> cs,
                         tasks |-> [k \in 1..Len(cs) |-> Pending]])
    /\ UNCHANGED <<clock, env, text, chunk_chars, chunks, ck_i, ck_pc>>

\* the completions the model may give for a chunk: the chunk's characters
\* moved to another alphabet, one alphabet per variant
Variants == {1, 2}

Tr(chunk, v) == [k \in 1..Len(chunk) |-> chunk[k] + 200 * v]

\* str(payload) of a response that holds no "completion"
PayloadStr == <<123, 125>>

(***************************************************************************)
(* translator.py:61-74  _ainvoke/_invoke for task k, run on the executor:  *)
(* the model is invoked and answers with a completion, with a payload      *)
(* that holds none, or the call raises.                                    *)
(***************************************************************************)
\* An invocation that is made a second time when the first one raised.
InvokeRetrying(r, k) ==
    /\ k \in 1..Len(req[r].tasks)
    /\ \/ req[r].tasks[k].st = "pending"
       \/ /\ req[r].tasks[k].st = "failed"
          /\ Len(SelectSeq(req[r].net, LAMBDA c : c.op = "INVOKE" /\ c.idx = k)) < 2
    /\ LET net1 == Log(r, [op |-> "INVOKE", idx |-> k, chunk |-> req[r].tchunks[k]])
           ord1 == Append(req[r].order, k)
       IN  \/ \E v \in Variants :
                Step(r, [net |-> net1, order |-> ord1,
                         tasks |-> [req[r].tasks EXCEPT
                                      ![k] = [st |-> "done", val |-> Tr(req[r].tchunks[k], v)]]])
           \/ Step(r, [net |-> net1, order |-> ord1,
                       tasks |-> [req[r].tasks EXCEPT
                                    ![k] = [st |-> "failed", val |-> <<>>]]])
    /\ UNCHANGED <<clock, env, text, chunk_chars, chunks, ck_i, ck_pc>>

_invoke(r, k) ==
    /\ k \in 1..Len(req[r].tasks)
    /\ req[r].tasks[k].st = "pending"
    /\ LET net1 == Log(r, [op |-> "INVOKE", idx |-> k, chunk |-> req[r].tchunks[k]])
           ord1 == Append(req[r].order, k)
       IN  \/ \E v \in Variants :
                Step(r, [net |-> net1, order |-> ord1,
                         tasks |-> [req[r].tasks EXCEPT
                                      ![k] = [st |-> "done", val |-> Tr(req[r].tchunks[k], v)]]])
           \/ Step(r, [net |-> net1, order |-> ord1,
                       tasks |-> [req[r].tasks EXCEPT
                                    ![k] = [st |-> "done", val |-> PayloadStr]]])
           \/ Step(r, [net |-> net1, order |-> ord1,
                       tasks |-> [req[r].tasks EXCEPT
                                    ![k] = [st |-> "failed", val |-> <<>>]]])
    /\ UNCHANGED <<clock, env, text, chunk_chars, chunks, ck_i, ck_pc>>

\* A gather that lists the results in the order the tasks completed.
GatherByCompletion(tasks, order) == [k \in 1..Len(tasks) |-> tasks[order[k]].val]

\* translator.py:58  asyncio.gather(*tasks): the results in the order of
\* the tasks passed in
Gather(tasks, order) == [k \in 1..Len(tasks) |-> tasks[k].val]

\* translator.py:58-59  every task is done: join and return
GatherReturn(r) ==
    /\ req[r].wk = "gather"
    /\ \A k \in 1..Len(req[r].tasks) : req[r].tasks[k].st = "done"
    /\ Step(r, [wk |-> AfterTranslate(r),
                translated_text |-> JoinNL(Gather(req[r].tasks, req[r].order))])
    /\ UNCHANGED <<clock, env, text, chunk_chars, chunks, ck_i, ck_pc>>

\* translator.py:58  a task raised: gather raises at once, the other tasks
\* are left running
GatherRaise(r) ==
    /\ req[r].wk = "gather"
    /\ \E k \in 1..Len(req[r].tasks) : req[r].tasks[k].st = "failed"
    /\ WorkRaise(r, 500, <<>>)
    /\ UNCHANGED <<clock, env, text, chunk_chars, chunks, ck_i, ck_pc>>

(***************************************************************************)
(* main.py:139, 146-148  the output name, bytes and MIME type              *)
(***************************************************************************)
Encode(r) ==
    /\ req[r].wk = "encode"
    /\ LET em == choose_output_ext_and_mime(req[r].preserve_format)
       IN  Step(r, [wk |-> IF req[r].output_url # <<>> THEN "put_host" ELSE "returned",
                    out_name |-> req[r].filename \o <<".", "translated">> \o em[1],
                    out_mime |-> em[2],
                    out_bytes |-> EncodeUtf8(req[r].translated_text)])
    /\ UNCHANGED <<clock, env, text, chunk_chars, chunks, ck_i, ck_pc>>

(***************************************************************************)
(* main.py:78-85  put_bytes                                                *)
(***************************************************************************)
PutHostCheck(r) ==
    /\ req[r].wk = "put_host"
    /\ IF ~host_allowed(req[r].output_url)
       THEN WorkRaise(r, 400, <<>>)
       ELSE Step(r, [wk |-> "put"])
    /\ UNCHANGED <<clock, env, text, chunk_chars, chunks, ck_i, ck_pc>>

\* The acceptance test of put_bytes taking every status below 400.
PutAcceptedLax(status) == status < 400

\* An acceptance test of put_bytes taking every 2xx status.
PutAcceptedAny2xx(status) == status \in 200..299

\* main.py:83  resp.status not in (200, 201, 204)
PutAccepted(status) == status \in {200, 201, 204}

\* the statuses the destination may answer with; 0 is a transport failure
PutStatuses == {0, 200, 201, 202, 204, 403}

\* the bodies the destination may send with a status that is not accepted
PutBodies == {<<>>, <<"AccessDenied">>}

\* main.py:85  the detail of the HTTPException: the upstream status and body
PutFailure(status, body) == <<"Failed to upload to output_url:", status, body>>

PutBytes(r) ==
    /\ req[r].wk = "put"
    /\ \E status \in PutStatuses, body \in PutBodies :
          LET net1 == Log(r, [op |-> "PUT", url |-> req[r].output_url,
                              data |-> req[r].out_bytes,
                              content_type |-> req[r].out_mime, status |-> status,
                              body |-> body])
          IN  IF status = 0
              THEN body = <<>> /\ WorkRaise(r, 500, [net |-> net1])
              ELSE IF ~PutAccepted(status)
              THEN WorkRaise(r, 400, [net |-> net1,
                                      exc_detail |-> PutFailure(status, body)])
              ELSE body = <<>> /\ Step(r, [wk |-> "returned", net |-> net1])
    /\ UNCHANGED <<clock, env, text, chunk_chars, chunks, ck_i, ck_pc>>

(***************************************************************************)
(* main.py:157-161  the sync response, or the exception of do_work         *)
(***************************************************************************)
Respond(r) ==
    /\ req[r].pc = "await_work"
    /\ req[r].wk \in {"returned", "raised"}
    /\ IF req[r].wk = "raised"
       THEN Fail(r, req[r].exc)
       ELSE IF req[r].output_url # <<>>
       THEN Step(r, [pc |-> "responded",
                     resp |-> [status |-> 200, kind |-> "succeeded",
                               output_url |-> req[r].output_url,
                               filename |-> req[r].out_name, mime |-> req[r].out_mime]])
       ELSE Step(r, [pc |-> "responded",
                     resp |-> [status |-> 200, kind |-> "bytes",
                               body |-> req[r].out_bytes,
                               filename |-> req[r].out_name, mime |-> req[r].out_mime]])
    /\ UNCHANGED <<clock, env, text, chunk_chars, chunks, ck_i, ck_pc>>

\* The text of length L whose character at 0-based offset k is k.
TextOfLen(L) == [k \in 1..L |-> k - 1]

(***************************************************************************)
(* Inputs.                                                                 *)
(***************************************************************************)
HostBucket == <<"my-bucket", ".", "s3", ".", "amazonaws", ".", "com">>
HostEvil == <<"evil", ".", "example", ".", "com">>

MkUrl(host, name) == <<"https:", "//">> \o host \o <<"/", "files", "/">> \o name

NameTxt == <<"doc", ".", "txt">>
NamePdf == <<"a", ".", "PDF">>
NameExe == <<"doc", ".", "exe">>
NameBare == <<"doc">>

AuthOk == <<"Bearer", " ", "devkey">>
AuthHeaders == {<<>>, <<"Basic", " ", "devkey">>, <<"Bearer", " ", "wrong">>, AuthOk}

\* uploads: every length up to one past the ceiling, and one with a byte
\* that is not valid UTF-8
UploadData ==
    {[k \in 1..n |-> IF k % 2 = 1 THEN 97 ELSE 98] : n \in 0..(MAX_BYTES + 1)}
        \cup {<<97, 255>>}

Upload(name, data) == [present |-> TRUE, filename |-> name, data |-> data]

OutputUrls == {<<>>, MkUrl(HostBucket, <<"out">>), MkUrl(HostEvil, <<"out">>)}

\* a digest that only the one-byte document "a" matches, written in uppercase
DigestOfA == HexUpper(Sha256Hex(<<97>>))

\* requests that differ in what the validation steps look at
ValidationRequests ==
    { Arrived([authorization |-> a, file_url |-> u, file |-> f])
        : a \in AuthHeaders,
          u \in {<<>>} \cup {MkUrl(h, n) : h \in {HostBucket, HostEvil},
                                           n \in {NameTxt, NameExe}},
          f \in {NoFile} \cup {Upload(n, d) : n \in {<<>>, NameTxt, NameExe},
                                              d \in {<<97>>} } }

\* authorized requests with an acceptable name, which differ in source,
\* delivery, format, return mode and declared digest
PipelineRequests ==
    { Arrived([authorization |-> AuthOk, file_url |-> s[1], file |-> s[2],
               output_url |-> o, preserve_format |-> p, return_mode |-> m,
               integrity_sha256 |-> i])
        : s \in {<<MkUrl(HostBucket, NameTxt), NoFile>>,
                 <<MkUrl(HostBucket, NamePdf), NoFile>>}
                \cup {<<<<>>, Upload(n, d)>> : n \in {NameTxt, NamePdf, NameBare},
                                              d \in UploadData},
          o \in OutputUrls,
          p \in {"markdown", "plain"},
          m \in {"async", "sync"},
          i \in {<<>>, DigestOfA} }

\* bare calls of fetch_bytes(url)
FetchCalls ==
    { Merge(Absent, [entry |-> "fetch_bytes", pc |-> "fetch_host", file_url |-> u])
        : u \in {MkUrl(HostBucket, NameTxt), MkUrl(HostEvil, NameTxt)} }

\* process configurations: the LLM-backed translator with every parser, and
\* the pass-through translator (switch off, or boto3 missing) without them
EnvBedrock ==
    [use_bedrock |-> TRUE, boto3 |-> TRUE, region |-> <<"ap-southeast-1">>,
     client_ok |-> TRUE, chunk_chars_parses |-> TRUE,
     chunk_chars |-> 2, fitz |-> TRUE, docx |-> TRUE, max_bytes |-> MAX_BYTES]

Envs ==
    { EnvBedrock,
      [EnvBedrock EXCEPT !.use_bedrock = FALSE, !.fitz = FALSE],
      [EnvBedrock EXCEPT !.boto3 = FALSE, !.docx = FALSE] }

\* the upload of the end-to-end scenario: "hello.txt" holding "Hello world",
\* sent with return_mode "sync" and every other field left at its default,
\* and the same with preserve_format "plain"
NameHello == <<"hello", ".", "txt">>
HelloWorld == <<72, 101, 108, 108, 111, 32, 119, 111, 114, 108, 100>>

HelloRequests ==
    { Arrived([authorization |-> AuthOk, file |-> Upload(NameHello, HelloWorld),
               return_mode |-> "sync"]) }
        \cup { Arrived([authorization |-> AuthOk, file |-> Upload(NameHello, HelloWorld),
                        return_mode |-> "sync", preserve_format |-> "plain"]) }

\* the configuration of the scenario: the pass-through translator, and a
\* ceiling above the length of the document
EnvHello ==
    [EnvBedrock EXCEPT !.use_bedrock = FALSE, !.max_bytes = Len(HelloWorld) + 1]

ChunkerIdle ==
    /\ text = <<>>
    /\ chunk_chars = 1
    /\ chunks = <<>>
    /\ ck_i = 0
    /\ ck_pc = "idle"

Init ==
    /\ ChunkerIdle
    /\ clock = 0
    /\ \/ /\ env \in Envs
          /\ req \in {[r \in Reqs |-> IF r = 1 THEN q ELSE Absent]
                        : q \in ValidationRequests \cup PipelineRequests \cup FetchCalls}
       \/ /\ env = EnvHello
          /\ req \in {[r \in Reqs |-> IF r = 1 THEN q ELSE Absent] : q \in HelloRequests}

Handler(r) ==
    \/ EnsureAuth(r)
    \/ CheckSource(r)
    \/ CheckExt(r)
    \/ CheckUrlHost(r)
    \/ HeadInfo(r)
    \/ ReadSource(r)
    \/ FetchHostCheck(r)
    \/ FetchGet(r)
    \/ FetchChunk(r)
    \/ FetchEnd(r)
    \/ CheckIntegrity(r)
    \/ GetTranslator(r)
    \/ Dispatch(r)
    \/ Respond(r)

Translator(r) ==
    \/ Translate(r)
    \/ \E k \in 1..Len(req[r].tasks) : _invoke(r, k)
    \/ GatherReturn(r)
    \/ GatherRaise(r)

Work(r) ==
    \/ Extract(r)
    \/ Translator(r)
    \/ Encode(r)
    \/ PutHostCheck(r)
    \/ PutBytes(r)

Next == \E r \in Reqs : Handler(r) \/ Work(r)

Spec == Init /\ [][Next]_vars

\* The event loop runs a coroutine that is ready, and every awaited call
\* (HTTP request, executor job) comes back, with an answer or with an
\* exception: while some step is possible, a step is taken.
\* A few authorized requests follow that to the end: each source, each
\* delivery, each return mode.
LiveRequests ==
    { Arrived([authorization |-> AuthOk, file_url |-> s[1], file |-> s[2],
               output_url |-> o, return_mode |-> m])
        : s \in {<<MkUrl(HostBucket, NameTxt), NoFile>>,
                 <<<<>>, Upload(NamePdf, <<97, 98, 97>>)>>},
          o \in OutputUrls,
          m \in {"async", "sync"} }

InitLive ==
    /\ ChunkerIdle
    /\ clock = 0
    /\ env \in Envs
    /\ req \in {[r \in Reqs |-> IF r = 1 THEN q ELSE Absent] : q \in LiveRequests}

SpecLive == InitLive /\ [][Next]_vars /\ WF_vars(Next)

(***************************************************************************)
(* Two requests handled by one process at the same time, their steps       *)
(* interleaved in any order.  The documents of the two differ, so that     *)
(* data of one showing up in the other is seen.                            *)
(***************************************************************************)
PairFirst ==
    { Arrived([authorization |-> AuthOk, file |-> Upload(NameTxt, <<97, 98, 97>>),
               output_url |-> o, return_mode |-> m])
        : o \in {<<>>, MkUrl(HostBucket, <<"out">>)}, m \in {"async", "sync"} }

PairSecondUpload ==
    { Arrived([authorization |-> AuthOk, file |-> Upload(NamePdf, <<98>>),
               return_mode |-> m])
        : m \in {"async", "sync"} }

PairSecondUrl ==
    { Arrived([authorization |-> AuthOk, file_url |-> MkUrl(HostBucket, NameTxt),
               return_mode |-> "async"]) }

InitPair ==
    /\ ChunkerIdle
    /\ clock = 0
    /\ \/ /\ env = EnvBedrock
          /\ req \in {[r \in Reqs |-> IF r = 1 THEN p ELSE q]
                        : p \in PairFirst, q \in PairSecondUpload}
       \/ /\ env = [EnvBedrock EXCEPT !.use_bedrock = FALSE]
          /\ req \in {[r \in Reqs |-> IF r = 1 THEN p ELSE q]
                        : p \in PairFirst, q \in PairSecondUrl}

SpecPair == InitPair /\ [][Next]_vars

(***************************************************************************)
(* The selection of the translator on its own: get_translator() called by  *)
(* the handler of a sourced request, in every configuration.               *)
(***************************************************************************)
SelectEnvs ==
    { [EnvBedrock EXCEPT !.use_bedrock = u, !.boto3 = b, !.region = g,
                         !.client_ok = c, !.chunk_chars_parses = p]
        : u \in BOOLEAN, b \in BOOLEAN, g \in {<<>>, <<"ap-southeast-1">>},
          c \in BOOLEAN, p \in BOOLEAN }

SelectRequests ==
    { Merge(Arrived([authorization |-> AuthOk, file |-> Upload(NameTxt, d),
                     return_mode |-> m]),
            [pc |-> "translator", filename |-> NameTxt, raw |-> d])
        : d \in {<<>>, <<97>>, <<97, 98>>}, m \in {"async", "sync"} }

InitSelect ==
    /\ ChunkerIdle
    /\ clock = 0
    /\ env \in SelectEnvs
    /\ req \in {[r \in Reqs |-> IF r = 1 THEN q ELSE Absent] : q \in SelectRequests}

NextSelect == \E r \in Reqs : GetTranslator(r)

SpecSelect == InitSelect /\ [][NextSelect]_vars

(***************************************************************************)
(* The translator on its own: translate(text) called on an LLM-backed      *)
(* translator with a given chunk budget.                                   *)
(***************************************************************************)
\* Longest of the short texts handed to translate() on its own.
MaxTrLen == 3

TranslateInputs ==
    {<<L, n>> : L \in 0..MaxTrLen, n \in {1, 2}}
        \cup {<<L, 20>> : L \in {20, 21, 39}}

InitTranslate ==
    /\ ChunkerIdle
    /\ clock = 0
    /\ \E i \in TranslateInputs :
          /\ env = [EnvBedrock EXCEPT !.chunk_chars = i[2]]
          /\ req = [r \in Reqs |->
                      IF r = 1
                      THEN Merge(Absent, [entry |-> "translate", pc |-> "direct",
                                          translator |-> "bedrock",
                                          wk |-> "translate", txt |-> TextOfLen(i[1])])
                      ELSE Absent]

NextTranslate == \E r \in Reqs : Translator(r)

SpecTranslate == InitTranslate /\ [][NextTranslate]_vars

(***************************************************************************)
(* The chunker on its own: _chunks(text) with budget chunk_chars, one      *)
(* action per pass through its loop.                                       *)
(***************************************************************************)
InitChunk ==
    /\ text \in {TextOfLen(L) : L \in 0..MaxLen}
    /\ chunk_chars \in 1..MaxBudget
    /\ chunks = <<>>
    /\ ck_i = 0
    /\ ck_pc = "start"
    /\ clock = 0
    /\ env = EnvBedrock
    /\ req = [r \in Reqs |-> Absent]

\* translator.py:30-35
ChunksEnter ==
    /\ ck_pc = "start"
    /\ IF FitsBudget(text, chunk_chars)
       THEN chunks' = <<text>> /\ ck_pc' = "done"
       ELSE chunks' = <<>> /\ ck_pc' = "loop"
    /\ ck_i' = 0
    /\ UNCHANGED <<text, chunk_chars, req, clock, env>>

\* translator.py:36-38  one pass of the loop
ChunksLoop ==
    /\ ck_pc = "loop"
    /\ LoopCond(text, ck_i)
    /\ chunks' = Append(chunks, Window(text, chunk_chars, ck_i))
    /\ ck_i' = Advance(chunk_chars, OverlapOf(chunk_chars), ck_i)
    /\ UNCHANGED <<ck_pc, text, chunk_chars, req, clock, env>>

\* translator.py:36, 39  the loop ends: return chunks
ChunksReturn ==
    /\ ck_pc = "loop"
    /\ ~LoopCond(text, ck_i)
    /\ ck_pc' = "done"
    /\ UNCHANGED <<chunks, ck_i, text, chunk_chars, req, clock, env>>

NextChunk == ChunksEnter \/ ChunksLoop \/ ChunksReturn

SpecChunk == InitChunk /\ [][NextChunk]_vars

\* _chunks is synchronous code: once called it runs until it returns
SpecChunkRun == InitChunk /\ [][NextChunk]_vars /\ WF_vars(NextChunk)

(***************************************************************************)
(* Properties of the chunker.                                              *)
(***************************************************************************)
NChunks == Len(chunks)

\* chunk c is the contiguous substring of text starting at 0-based offset s
IsSubstringAt(c, s) ==
    /\ s + Len(c) <= Len(text)
    /\ (c # <<>>) => text[s + 1] = c[1]
    /\ c = Slice(text, s, s + Len(c))

\* start offset of the k-th chunk within text
StartOff(k) == CHOOSE s \in 0..Len(text) : IsSubstringAt(chunks[k], s)

\* <<start, end>> (end exclusive) of the first k chunks, in order
RECURSIVE SpansUpTo(_)
SpansUpTo(k) ==
    IF k = 0 THEN <<>>
    ELSE Append(SpansUpTo(k - 1), <<StartOff(k), StartOff(k) + Len(chunks[k])>>)

Spans == SpansUpTo(NChunks)

\* the chunks, given by their spans sp, that contain 0-based position p
Containing(sp, p) == {k \in 1..Len(sp) : sp[k][1] <= p /\ p < sp[k][2]}

\* floor(0.05 * budget), the overlap the specification declares
DeclaredOverlap == (5 * chunk_chars) \div 100

\* p is one of the last DeclaredOverlap positions of a window that has a successor
InOverlapRegion(sp, p) ==
    \E k \in 1..(Len(sp) - 1) : sp[k][2] - DeclaredOverlap <= p /\ p < sp[k][2]

\* C2: a text no longer than the budget (the empty text included) is returned
\* as exactly one chunk, equal to the whole input.
C2_ShortTextSingleChunk ==
    (ck_pc = "done" /\ Len(text) <= chunk_chars) => chunks = <<text>>

C2_Witness ==
    /\ ck_pc = "done"
    /\ Len(text) = chunk_chars
    /\ chunk_chars >= 20
    /\ chunks = <<text>>

\* C3: the chunks are contiguous substrings of the text, each no longer than
\* the budget, with strictly increasing start offsets, and every character
\* position of the text lies in the span of some chunk.
C3_OrderedCover ==
    ck_pc = "done" =>
        /\ \A k \in 1..NChunks :
              /\ \E s \in 0..Len(text) : IsSubstringAt(chunks[k], s)
              /\ Len(chunks[k]) <= chunk_chars
        /\ LET sp == Spans
           IN  /\ \A k \in 1..(NChunks - 1) : sp[k][1] < sp[k + 1][1]
               /\ \A p \in 0..(Len(text) - 1) : Containing(sp, p) # {}

C3_Witness ==
    /\ ck_pc = "done"
    /\ NChunks >= 3
    /\ DeclaredOverlap >= 2
    /\ Len(chunks[NChunks]) < chunk_chars

\* C4: for a text longer than the budget, a position outside the declared
\* overlap regions lies in exactly one chunk and no position lies in more
\* than two chunks.
C4_OnceOutsideOverlap ==
    (ck_pc = "done" /\ Len(text) > chunk_chars) =>
        LET sp == Spans
        IN  \A p \in 0..(Len(text) - 1) :
                LET c == Cardinality(Containing(sp, p))
                IN  /\ c <= 2
                    /\ ~InOverlapRegion(sp, p) => c = 1

C4_Witness ==
    /\ ck_pc = "done"
    /\ Len(text) > chunk_chars
    /\ DeclaredOverlap >= 1
    /\ NChunks >= 3
    /\ LET sp == Spans
       IN  /\ \E p \in 0..(Len(text) - 1) : Cardinality(Containing(sp, p)) = 2
           /\ \E p \in 0..(Len(text) - 1) :
                 ~InOverlapRegion(sp, p) /\ p > chunk_chars

\* C5, as the specification states it: for a text longer than the budget,
\* window k (0-based) starts at k * (budget - floor(0.05 * budget)), every
\* window but the last has length exactly the budget, and every window after
\* the first that is not the last shares exactly floor(0.05 * budget)
\* characters with its predecessor.
C5_OnlyLastWindowShort ==
    (ck_pc = "done" /\ Len(text) > chunk_chars) =>
        LET sp == Spans
        IN  /\ \A k \in 1..NChunks :
                  sp[k][1] = (k - 1) * (chunk_chars - DeclaredOverlap)
            /\ \A k \in 1..(NChunks - 1) : Len(chunks[k]) = chunk_chars
            /\ \A k \in 2..(NChunks - 1) :
                  sp[k - 1][2] - sp[k][1] = DeclaredOverlap

(***************************************************************************)
(* Properties of the LLM-backed translate call.                            *)
(***************************************************************************)
\* request r's calls of kind op, in the order they were made
Calls(r, op) == SelectSeq(req[r].net, LAMBDA c : c.op = op)

\* C1: when the LLM-backed translate call returns, its result is the outputs
\* of the invocations joined with a newline in chunk-index order, output k
\* being what the invocation made for chunk k of the text returned, whatever
\* the order in which the invocations completed.
C1_ReassembledInIndexOrder ==
    \A r \in Reqs :
        LET q == req[r]
            cs == _chunks(q.txt, env.chunk_chars)
        IN  (q.entry = "translate" /\ q.wk = "returned") =>
                /\ Len(q.tasks) = Len(cs)
                /\ \A k \in 1..Len(cs) :
                      /\ \E j \in 1..Len(q.net) :
                            q.net[j] = [op |-> "INVOKE", idx |-> k, chunk |-> cs[k]]
                      /\ \/ q.tasks[k].val = PayloadStr
                         \/ \E v \in Variants : q.tasks[k].val = Tr(cs[k], v)
                /\ q.translated_text = JoinNL([k \in 1..Len(cs) |-> q.tasks[k].val])

C1_Witness ==
    \E r \in Reqs :
        /\ req[r].entry = "translate"
        /\ req[r].wk = "returned"
        /\ Len(req[r].tasks) = 3
        /\ req[r].order = <<3, 1, 2>>
        /\ Len(req[r].tchunks[1]) = 20

(***************************************************************************)
(* Properties of the request handler and its gateway.                      *)
(***************************************************************************)
\* the host of url matches none of the allow-list patterns
MatchesNoPattern(url) ==
    \A k \in 1..Len(ALLOWED_URL_HOSTS) : ~FnMatch(Hostname(url), ALLOWED_URL_HOSTS[k])

\* request r has got past the sourcing steps of the handler
Sourced(q) ==
    q.entry = "translate_file" /\
        (q.pc \in {"integrity", "translator", "dispatch", "await_work"} \/ q.wk # "none")

\* C6: the bytes accumulated by a streaming fetch never exceed the ceiling;
\* the fetch is aborted with 413 by the first increment that takes the
\* running total over the ceiling, whatever size the HEAD answer declared;
\* an upload longer than the ceiling is rejected with 413 when it is read;
\* no request gets to the integrity check or to extraction with more bytes
\* than the ceiling.
C6_CeilingOnBytesRead ==
    \A r \in Reqs :
        LET q == req[r]
        IN  /\ Len(Concat(q.fchunks)) <= env.max_bytes
            /\ q.read > env.max_bytes =>
                  /\ q.pc = "responded" /\ q.failed_at = "stream"
                  /\ q.resp = ErrorResp(413)
                  /\ q.read - env.max_bytes <= ITER_CHUNK
                  /\ q.raw = <<>>
            /\ (q.file.present /\ Len(q.file.data) > env.max_bytes) =>
                  /\ ~Sourced(q)
                  /\ q.pc = "responded" =>
                        /\ q.resp.kind = "error"
                        /\ q.failed_at \notin {"received", "authorized", "named",
                                               "url_host", "head"}
                              => (q.failed_at = "source" /\ q.resp.status = 413)
            /\ Sourced(q) => Len(q.raw) <= env.max_bytes

C6_Witness ==
    \E r \in Reqs :
        /\ req[r].entry = "translate_file"
        /\ req[r].failed_at = "stream"
        /\ req[r].resp = ErrorResp(413)
        /\ req[r].read = MAX_BYTES + 1
        /\ Len(Concat(req[r].fchunks)) = MAX_BYTES - 1
        /\ req[r].size = MAX_BYTES

\* C7: a GET made for a request is preceded by a HEAD to the same URL, and a
\* request whose HEAD answer declared a Content-Length above the ceiling is
\* rejected with 413 without any GET.
C7_HeadBeforeGet ==
    \A r \in Reqs :
        LET q == req[r]
        IN  q.entry = "translate_file" =>
                /\ \A j \in 1..Len(q.net) :
                      q.net[j].op = "GET" =>
                          \E i \in 1..(j - 1) :
                              q.net[i] = [op |-> "HEAD", url |-> q.net[j].url]
                /\ q.size > env.max_bytes =>
                      /\ q.pc = "responded" /\ q.failed_at = "head"
                      /\ q.resp = ErrorResp(413)
                      /\ Calls(r, "GET") = <<>>
                      /\ q.wk = "none"

C7_Witness ==
    \E r \in Reqs :
        /\ req[r].size = MAX_BYTES + 1
        /\ req[r].resp = ErrorResp(413)
        /\ req[r].net = <<[op |-> "HEAD", url |-> req[r].file_url]>>
        /\ ~req[r].file.present

\* C8: for a file_url whose host matches no allow-list pattern no network
\* call is ever made, neither by the handler nor by fetch_bytes called on
\* its own; the call ends in an error, which is the 400 of the host check
\* whenever the host check is reached.
C8_FileUrlHostCheckedFirst ==
    \A r \in Reqs :
        LET q == req[r]
        IN  (q.file_url # <<>> /\ MatchesNoPattern(q.file_url)) =>
                /\ q.net = <<>>
                /\ q.pc \in {"received", "authorized", "named", "url_host",
                             "fetch_host", "responded"}
                /\ q.wk = "none"
                /\ q.pc = "responded" =>
                      /\ q.resp.kind = "error"
                      /\ q.failed_at \in {"received", "authorized", "named",
                                          "url_host", "fetch_host"}
                      /\ q.failed_at \in {"url_host", "fetch_host"}
                            => q.resp.status = 400

C8_Witness ==
    \E r \in Reqs :
        /\ req[r].entry = "translate_file"
        /\ Hostname(req[r].file_url) = HostEvil
        /\ req[r].failed_at = "url_host"
        /\ req[r].resp = ErrorResp(400)
        /\ req[r].net = <<>>

\* C9, as the specification states it: a request whose output_url host
\* matches no allow-list pattern is rejected with 400 before any network
\* call is made on its behalf (no HEAD, no GET, no model invocation, no
\* PUT), in both return modes.
C9_OutputHostRejectedFirst ==
    \A r \in Reqs :
        LET q == req[r]
        IN  (q.entry = "translate_file" /\ q.output_url # <<>>
                 /\ MatchesNoPattern(q.output_url)) =>
                /\ q.net = <<>>
                /\ q.pc = "responded" => q.resp.kind = "error"

\* C10: when a digest is declared, it is compared with the SHA-256 of the
\* sourced bytes before anything else is done with them: on mismatch the
\* request is answered 400 and no extraction, translation or delivery is
\* started, in either return mode; only on a match does the request go on.
DigestMismatch(q) ==
    q.integrity_sha256 # <<>> /\ Sha256Hex(q.raw) # HexLower(q.integrity_sha256)

C10_IntegrityGate ==
    \A r \in Reqs :
        LET q == req[r]
        IN  q.entry = "translate_file" =>
                /\ (q.pc = "responded" /\ q.failed_at = "integrity") =>
                      /\ DigestMismatch(q)
                      /\ q.resp = ErrorResp(400)
                      /\ q.wk = "none"
                      /\ Calls(r, "INVOKE") = <<>> /\ Calls(r, "PUT") = <<>>
                /\ (q.pc \in {"translator", "dispatch", "await_work"}
                        \/ q.wk # "none" \/ q.resp.kind \in {"queued", "succeeded", "bytes"})
                      => ~DigestMismatch(q)

C10_Witness ==
    \E r \in Reqs :
        /\ req[r].return_mode = "async"
        /\ req[r].integrity_sha256 = DigestOfA
        /\ req[r].raw = <<97, 98>>
        /\ req[r].failed_at = "integrity"
        /\ req[r].resp = ErrorResp(400)

\* the header is absent or does not begin with the bearer scheme
NoBearer(h) == Len(h) < 2 \/ h[1] # "Bearer" \/ h[2] # " "

\* the header carries the configured secret as its bearer token
BearerOfSecret(h) == h = <<"Bearer", " ">> \o API_KEY

\* nothing has been done for the request beyond answering it
Untouched(q) ==
    /\ q.net = <<>> /\ q.raw = <<>> /\ q.fchunks = <<>>
    /\ q.wk = "none" /\ q.translator = "none"
    /\ q.txt = <<>> /\ q.tasks = <<>> /\ q.translated_text = <<>>

\* C11: authentication comes first: a header that is absent or not of the
\* bearer scheme is answered 401, a bearer token that differs from the
\* secret 403, and for both nothing is read, fetched, extracted or
\* translated; a request gets past the first step only with the secret as
\* its bearer token.
C11_AuthFirst ==
    \A r \in Reqs :
        LET q == req[r]
        IN  q.entry = "translate_file" =>
                /\ ~BearerOfSecret(q.authorization) =>
                      /\ q.pc \in {"received", "responded"}
                      /\ Untouched(q)
                      /\ q.pc = "responded" =>
                            /\ q.failed_at = "received"
                            /\ q.resp = ErrorResp(IF NoBearer(q.authorization)
                                                  THEN 401 ELSE 403)
                /\ BearerOfSecret(q.authorization) => q.failed_at # "received"
                /\ q.pc = "received" => Untouched(q)

C11_Witness ==
    \E r \in Reqs :
        /\ req[r].authorization = <<"Bearer", " ", "wrong">>
        /\ req[r].file.present /\ req[r].file_url # <<>>
        /\ req[r].pc = "responded"
        /\ req[r].resp = ErrorResp(403)
        /\ Untouched(req[r])

\* the handler has begun to source the request: a HEAD or GET was issued, or
\* the upload was read
ReachedSourcing(q) ==
    /\ q.entry = "translate_file"
    /\ \/ q.net # <<>>
       \/ Sourced(q)
       \/ q.failed_at \in {"head", "source", "get", "stream", "integrity"}

\* C12, as the specification states it: every request that reaches sourcing
\* has an effective file name whose extension is a member of the allow-list,
\* and a request whose extension is not a member is answered 415 by the
\* extension check, with no network call.
C12_ExtensionAllowListed ==
    \A r \in Reqs :
        LET q == req[r]
            ext == ext_from_name(EffectiveName(q))
        IN  /\ ReachedSourcing(q) => ext \in ALLOWED_EXTS
            /\ (q.entry = "translate_file" /\ ext \notin ALLOWED_EXTS
                    /\ q.pc \notin {"received", "authorized", "named"}
                    /\ q.failed_at \notin {"received", "authorized"}) =>
                  /\ q.pc = "responded" /\ q.failed_at = "named"
                  /\ q.resp = ErrorResp(415)
                  /\ q.net = <<>>

\* the request names a remote source, carries an upload
HasUrl(q) == q.file_url # <<>>
HasUpload(q) == q.file.present

\* the request was let through the source check of the handler
PastSourceCheck(q) ==
    /\ q.entry = "translate_file"
    /\ q.pc \notin {"received", "authorized"}
    /\ q.failed_at \notin {"received", "authorized"}

\* C13, as the specification states it: a request with neither source is
\* answered 400, a request with both sources is rejected, and every request
\* that gets past the source check has exactly one source.
C13_ExactlyOneSource ==
    \A r \in Reqs :
        LET q == req[r]
        IN  q.entry = "translate_file" =>
                /\ (~HasUrl(q) /\ ~HasUpload(q) /\ q.failed_at = "authorized")
                      => q.resp = ErrorResp(400)
                /\ (HasUrl(q) /\ HasUpload(q)) =>
                      /\ q.resp.kind \in {"none", "error"}
                      /\ q.wk = "none"
                /\ PastSourceCheck(q) => (HasUrl(q) # HasUpload(q))

\* do_work of the request has come to its end: it returned or it raised
WorkEnded(q) == q.wk \in {"returned", "raised"}

QueuedResp(q) == [status |-> 200, kind |-> "queued", job_id |-> q.job_id]

\* in async mode the work exists only once the queued response is given, and
\* the response is never anything but a validation error or "queued"
C14_QueuedBeforeWork ==
    \A r \in Reqs :
        LET q == req[r]
        IN  (q.entry = "translate_file" /\ q.return_mode = "async") =>
                /\ q.pc # "await_work"
                /\ q.wk # "none" => (q.pc = "responded" /\ q.resp = QueuedResp(q))
                /\ q.resp.kind \in {"none", "error", "queued"}
                /\ q.resp.kind = "error" => q.wk = "none"

\* the step that answers "queued" leaves the work at its start, and no step
\* of the work touches the response
C14_ResponseApartFromWork ==
    \A r \in Reqs :
        /\ (req[r].resp.kind # "queued" /\ req'[r].resp.kind = "queued") =>
              /\ req[r].pc = "dispatch"
              /\ req'[r].wk = "extract"
              /\ req'[r].net = req[r].net
        /\ req[r].resp.kind = "queued" =>
              /\ req'[r].resp = req[r].resp
              /\ req'[r].pc = req[r].pc

\* C14: in async mode a request that has passed validation and sourcing is
\* answered 200 {job_id, status: "queued"} without waiting for do_work: the
\* answer is given while the work is still at its start, and the background
\* task then runs to its end without touching the answer.
C14_AsyncQueuedThenBackground ==
    /\ []C14_QueuedBeforeWork
    /\ [][C14_ResponseApartFromWork]_vars
    /\ \A r \in Reqs :
          (req[r].return_mode = "async" /\ req[r].pc = "translator")
              ~> (req[r].resp = QueuedResp(req[r]) /\ WorkEnded(req[r]))

C14_Witness ==
    \E r \in Reqs :
        /\ req[r].return_mode = "async"
        /\ req[r].resp = QueuedResp(req[r])
        /\ req[r].wk = "returned"
        /\ Len(Calls(r, "INVOKE")) = 2
        /\ Len(Calls(r, "PUT")) = 1

\* the model's answer for the task held no completion: what the task
\* returned is the payload written out
NoCompletion(t) == t.st = "done" /\ t.val = PayloadStr

\* the invocation for some chunk failed: it raised, or its answer held no
\* completion
ChunkFailed(q) ==
    \E k \in 1..Len(q.tasks) : q.tasks[k].st = "failed" \/ NoCompletion(q.tasks[k])

EveryChunkTranslated(q) ==
    \A k \in 1..Len(q.tasks) : q.tasks[k].st = "done" /\ ~NoCompletion(q.tasks[k])

\* C15, as the specification states it: in async mode a failed extraction
\* or chunk translation leaves the queued response as it was and no PUT is
\* ever issued for the job; a job issues at most one PUT, only to a supplied
\* output_url and only after every chunk was translated successfully.
C15_AsyncFailureConfined ==
    \A r \in Reqs :
        LET q == req[r]
        IN  (q.entry = "translate_file" /\ q.return_mode = "async") =>
                /\ (q.raised_at = "extract" \/ ChunkFailed(q)) =>
                      /\ q.resp = QueuedResp(q)
                      /\ Calls(r, "PUT") = <<>>
                /\ Len(Calls(r, "PUT")) <= 1
                /\ Calls(r, "PUT") # <<>> =>
                      /\ q.output_url # <<>>
                      /\ EveryChunkTranslated(q)

\* the statuses with which the destination accepts a PUT
AcceptingStatuses == {200, 201, 204}

SucceededResp(q) ==
    [status |-> 200, kind |-> "succeeded", output_url |-> q.output_url,
     filename |-> q.out_name, mime |-> q.out_mime]

\* the one PUT of the finished sequence: the assembled bytes, sent to
\* output_url with the chosen MIME type
PutOf(q, status) ==
    [op |-> "PUT", url |-> q.output_url, data |-> q.out_bytes,
     content_type |-> q.out_mime, status |-> status, body |-> <<>>]

\* C16: in sync mode with an output_url the response is "succeeded", with
\* the output_url, file name and MIME type, only when extraction,
\* translation and assembly have completed and the PUT was accepted; when
\* the PUT is refused or an earlier step raises, the response is an error,
\* and translated bytes are never the response.
C16_SyncDeliveredOnlyAfterPut ==
    \A r \in Reqs :
        LET q == req[r]
        IN  (q.entry = "translate_file" /\ q.return_mode = "sync"
                 /\ q.output_url # <<>>) =>
                /\ q.resp.kind \in {"none", "error", "succeeded"}
                /\ q.resp.kind = "succeeded" =>
                      /\ q.resp = SucceededResp(q)
                      /\ q.wk = "returned" /\ q.fmt # "none"
                      /\ \A k \in 1..Len(q.tasks) : q.tasks[k].st = "done"
                      /\ q.out_bytes = EncodeUtf8(q.translated_text)
                      /\ \E st \in AcceptingStatuses :
                            /\ Calls(r, "PUT") = <<PutOf(q, st)>>
                            /\ q.net[Len(q.net)] = PutOf(q, st)
                /\ (q.pc = "responded"
                        /\ \/ q.wk = "raised"
                           \/ \E j \in 1..Len(q.net) :
                                 /\ q.net[j].op = "PUT"
                                 /\ q.net[j].status \notin AcceptingStatuses)
                      => (q.resp.kind = "error" /\ q.resp.status >= 400)

C16_Witness ==
    \E r \in Reqs :
        /\ req[r].return_mode = "sync"
        /\ req[r].translator = "bedrock"
        /\ Len(req[r].tasks) = 2
        /\ req[r].resp = SucceededResp(req[r])
        /\ Calls(r, "PUT") = <<PutOf(req[r], 201)>>

\* what the translation backend of the request gave back
BackendOutput(q) ==
    IF q.translator = "passthrough" THEN q.txt
    ELSE JoinNL([k \in 1..Len(q.tasks) |-> q.tasks[k].val])

\* the extension and the MIME type that go with an output-format preference
FormatExt(p) == IF p = "markdown" THEN <<".", "md">> ELSE <<".", "txt">>
FormatMime(p) == IF p = "markdown" THEN "text/markdown" ELSE "text/plain"

\* C17: in sync mode without an output_url the response body is the UTF-8
\* encoding of what the translation backend gave back, no PUT is issued, the
\* output file name is the effective input file name followed by
\* ".translated" and the extension of the format, and extension and MIME
\* type depend on the output-format preference alone: ".md" and
\* text/markdown for "markdown", ".txt" and text/plain for anything else.
C17_SyncBytesResponse ==
    \A r \in Reqs :
        LET q == req[r]
        IN  (q.entry = "translate_file" /\ q.return_mode = "sync"
                 /\ q.output_url = <<>>) =>
                /\ Calls(r, "PUT") = <<>>
                /\ q.resp.kind \in {"none", "error", "bytes"}
                /\ q.resp.kind = "bytes" =>
                      /\ q.resp.status = 200
                      /\ q.resp.body = EncodeUtf8(BackendOutput(q))
                      /\ q.resp.filename =
                            EffectiveName(q) \o <<".", "translated">>
                                \o FormatExt(q.preserve_format)
                      /\ q.resp.mime = FormatMime(q.preserve_format)

C17_Witness ==
    \E r \in Reqs :
        /\ req[r].return_mode = "sync" /\ req[r].output_url = <<>>
        /\ req[r].preserve_format = "plain"
        /\ req[r].translator = "bedrock"
        /\ req[r].resp.kind = "bytes"
        /\ req[r].resp.mime = "text/plain"
        /\ req[r].resp.filename = <<"doc", ".", "txt", ".", "translated", ".", "txt">>
        /\ Len(req[r].resp.body) > 3

\* the request of the end-to-end scenario: the upload "hello.txt" holding
\* "Hello world", sync, no output_url, answered by the pass-through
\* translator
HelloScenario(q) ==
    /\ q.entry = "translate_file"
    /\ q.file = Upload(NameHello, HelloWorld)
    /\ q.file_url = <<>> /\ q.output_url = <<>> /\ q.integrity_sha256 = <<>>
    /\ q.return_mode = "sync"
    /\ env.use_bedrock = FALSE

\* the fields the scenario leaves unspecified are at their defaults
AtDefaults(q) == q.preserve_format = Absent.preserve_format

BytesResp(body, name, mime) ==
    [status |-> 200, kind |-> "bytes", body |-> body, filename |-> name, mime |-> mime]

\* the pass-through translator has given back the text it was given
PassThroughUnchanged(q) ==
    (q.translator = "passthrough" /\ q.wk \in {"encode", "put_host", "put", "returned"})
        => q.translated_text = q.txt

\* C18, as the specification states it: the pass-through translator gives
\* back its input unchanged, so that the scenario with every unspecified
\* field at its default is answered with the body "Hello world", the
\* Content-Type text/plain and the file name "hello.txt.translated.txt".
C18_HelloWorldPlain ==
    \A r \in Reqs :
        LET q == req[r]
        IN  /\ PassThroughUnchanged(q)
            /\ (HelloScenario(q) /\ AtDefaults(q) /\ q.pc = "responded") =>
                  q.resp = BytesResp(HelloWorld,
                                     NameHello \o <<".", "translated", ".", "txt">>,
                                     "text/plain")

\* C18, amended: the pass-through translator gives back its input unchanged
\* for every input; the scenario with every unspecified field at its
\* default (preserve_format "markdown") is answered with the body
\* "Hello world", the Content-Type text/markdown and the file name
\* "hello.txt.translated.md"; with preserve_format "plain" it is answered
\* with text/plain and "hello.txt.translated.txt".
C18_HelloWorldByPreference ==
    \A r \in Reqs :
        LET q == req[r]
        IN  /\ PassThroughUnchanged(q)
            /\ (HelloScenario(q) /\ q.pc = "responded") =>
                  q.resp =
                      IF AtDefaults(q)
                      THEN BytesResp(HelloWorld,
                                     NameHello \o <<".", "translated", ".", "md">>,
                                     "text/markdown")
                      ELSE BytesResp(HelloWorld,
                                     NameHello \o <<".", "translated", ".", "txt">>,
                                     "text/plain")

C18_Witness ==
    \E r \in Reqs :
        /\ HelloScenario(req[r]) /\ AtDefaults(req[r])
        /\ req[r].translator = "passthrough"
        /\ req[r].pc = "responded"
        /\ req[r].resp.body = HelloWorld
        /\ req[r].resp.mime = "text/markdown"

\* translate() has returned a text to do_work
TranslateReturned(q) == q.wk \in {"encode", "put_host", "put", "returned"}

\* C19, as the specification states it: when the invocation for some chunk
\* fails (it raises, or its answer holds no completion), translate() does
\* not return and the request fails: nothing is PUT, and the response is
\* neither "succeeded" nor translated bytes.
C19_InvocationFailureFatal ==
    \A r \in Reqs :
        LET q == req[r]
        IN  (q.entry = "translate_file" /\ ChunkFailed(q)) =>
                /\ ~TranslateReturned(q)
                /\ Calls(r, "PUT") = <<>>
                /\ q.resp.kind \notin {"succeeded", "bytes"}
                /\ (q.return_mode = "sync" /\ q.pc = "responded") => q.resp.kind = "error"

\* the invocations request r has made for chunk k
InvocationsFor(r, k) ==
    SelectSeq(req[r].net, LAMBDA c : c.op = "INVOKE" /\ c.idx = k)

\* every chunk of the request has been handed to the model exactly once
EachChunkInvokedOnce(r) ==
    /\ Len(Calls(r, "INVOKE")) = Len(req[r].tchunks)
    /\ \A k \in 1..Len(req[r].tchunks) :
          InvocationsFor(r, k) = <<[op |-> "INVOKE", idx |-> k, chunk |-> req[r].tchunks[k]]>>

\* no call is made twice: an invocation is made for a chunk only while its
\* task is open, one task is opened per chunk, one for a text within the
\* budget, none for the pass-through translator, and there is at most one
\* HEAD, one GET and one PUT
C20_NoSecondCall ==
    \A r \in Reqs :
        LET q == req[r]
        IN  /\ Len(q.tasks) = Len(q.tchunks)
            /\ \A k \in 1..Len(q.tasks) :
                  Len(InvocationsFor(r, k)) = (IF q.tasks[k].st = "pending" THEN 0 ELSE 1)
            /\ Len(Calls(r, "INVOKE")) <= Len(q.tasks)
            /\ (q.translator = "bedrock"
                    /\ \/ q.wk = "gather" \/ TranslateReturned(q)
                       \/ q.raised_at \in {"gather", "put_host", "put"}) =>
                  /\ Len(q.tasks) >= 1
                  /\ Len(q.txt) <= env.chunk_chars => Len(q.tasks) = 1
                  /\ (TranslateReturned(q) \/ q.raised_at \in {"put_host", "put"})
                        => EachChunkInvokedOnce(r)
            /\ q.translator # "bedrock" => Calls(r, "INVOKE") = <<>>
            /\ Len(Calls(r, "HEAD")) <= 1
            /\ Len(Calls(r, "GET")) <= 1
            /\ Len(Calls(r, "PUT")) <= 1

\* C20: nothing is retried: in every execution of a request the LLM-backed
\* translator makes exactly one invocation per chunk (one in all for a text
\* within the budget), whether the invocations succeed or fail, and the
\* gateway makes at most one HEAD, one GET and one PUT.
C20_NothingRetried ==
    /\ []C20_NoSecondCall
    /\ \A r \in Reqs : (req[r].wk = "gather") ~> EachChunkInvokedOnce(r)

C20_Witness ==
    \E r \in Reqs :
        /\ Len(req[r].tasks) = 2
        /\ req[r].tasks[1].st = "failed"
        /\ req[r].wk = "raised" /\ req[r].raised_at = "gather"
        /\ req[r].pc = "responded" /\ req[r].resp = ErrorResp(500)
        /\ EachChunkInvokedOnce(r)
        /\ Len(Calls(r, "HEAD")) = 1 /\ Len(Calls(r, "GET")) = 1

\* the configuration switch is on and nothing stops the constructor of the
\* LLM-backed translator
SwitchOnAndConstructible(e) ==
    e.use_bedrock /\ e.boto3 /\ e.region # <<>> /\ e.client_ok /\ e.chunk_chars_parses

\* C21: get_translator never fails the request: it gives the LLM-backed
\* translator exactly when the switch is on and the constructor succeeds;
\* with the switch off, or when the constructor raises (no boto3, no region,
\* boto3.client raising, CHUNK_CHARS no integer), it gives the pass-through
\* translator and raises nothing.
C21_BackendSelectionNeverFails ==
    \A r \in Reqs :
        LET q == req[r]
        IN  q.entry = "translate_file" =>
                /\ q.failed_at # "translator"
                /\ (q.pc \in {"dispatch", "await_work"} \/ q.wk # "none") =>
                      q.translator = (IF SwitchOnAndConstructible(env)
                                      THEN "bedrock" ELSE "passthrough")

C21_Witness ==
    \E r \in Reqs :
        /\ env.use_bedrock /\ env.boto3 /\ env.region # <<>> /\ ~env.client_ok
        /\ req[r].pc = "dispatch"
        /\ req[r].translator = "passthrough"
        /\ req[r].resp = NoResp

\* C22: a PUT counts as successful only when it is answered 200, 201 or
\* 204; with any other status put_bytes raises an error that carries the
\* upstream status and body, and the request is never reported as delivered:
\* no "succeeded" response, and in sync mode the error is the response.
C22_PutAcceptedStatuses ==
    \A r \in Reqs :
        LET q == req[r]
        IN  \A j \in 1..Len(q.net) :
                (q.net[j].op = "PUT" /\ q.net[j].status # 0) =>
                    IF q.net[j].status \in AcceptingStatuses
                    THEN q.wk = "returned" /\ q.exc_detail = <<>>
                    ELSE /\ q.wk = "raised" /\ q.raised_at = "put"
                         /\ q.exc = 400
                         /\ q.exc_detail[2] = q.net[j].status
                         /\ q.exc_detail[3] = q.net[j].body
                         /\ q.resp.kind \in {"none", "queued", "error"}
                         /\ (q.return_mode = "sync" /\ q.pc = "responded")
                               => q.resp = ErrorResp(400)

C22_Witness ==
    \E r \in Reqs :
        /\ req[r].return_mode = "sync"
        /\ Len(Calls(r, "PUT")) = 1
        /\ Calls(r, "PUT")[1].status = 202
        /\ Calls(r, "PUT")[1].body = <<"AccessDenied">>
        /\ req[r].exc_detail = PutFailure(202, <<"AccessDenied">>)
        /\ req[r].resp = ErrorResp(400)

\* the file name of the request calls for a parser the runtime lacks
ParserMissing(q) ==
    LET ext == ext_from_name(q.filename)
    IN  \/ ext = <<".", "pdf">> /\ ~env.fitz
        \/ ext = <<".", "docx">> /\ ~env.docx

\* C23, as the specification states it: when the parser for PDF or DOCX is
\* not available, extraction of a file with that extension fails: the raw
\* bytes are never decoded as text and nothing goes on to translation.
C23_MissingParserFails ==
    \A r \in Reqs :
        LET q == req[r]
        IN  (q.entry = "translate_file" /\ ParserMissing(q)
                 /\ q.wk \notin {"none", "extract"}) =>
                /\ q.wk = "raised" /\ q.raised_at = "extract"
                /\ q.fmt # "raw"
                /\ q.txt = <<>>

\* The state of the request in the state machine of the orchestrator:
\* 0 failed, 1 received, 2 authorized, 3 sourced, 4 extracted,
\* 5 translating, 6 assembled, 7 delivered.
HasFailed(q) == (q.pc = "responded" /\ q.resp.kind = "error") \/ q.wk = "raised"

MachineState(q) ==
    IF HasFailed(q) THEN 0
    ELSE IF q.wk = "returned"
         THEN (IF q.output_url # <<>> \/ q.resp.kind = "bytes" THEN 7 ELSE 6)
    ELSE IF q.wk \in {"put_host", "put"} THEN 6
    ELSE IF q.wk \in {"gather", "encode"} THEN 5
    ELSE IF q.wk = "translate" THEN 4
    ELSE IF q.wk = "extract" \/ q.pc \in {"translator", "dispatch"} THEN 3
    ELSE IF q.pc = "received" THEN 1
    ELSE 2

\* one step of a request: forward by at most one state, or to failed; from
\* failed nothing more is done for the request
MachineStep(r) ==
    LET a == MachineState(req[r])
        b == MachineState(req'[r])
    IN  req[r].entry = "translate_file" =>
            /\ a # 0 => b \in {0, a, a + 1}
            /\ (b = 7 /\ a # 7) => a = 6
            /\ a = 0 =>
                  /\ b = 0
                  /\ req'[r].net = req[r].net
                  /\ req'[r].tasks = req[r].tasks
                  /\ req'[r].txt = req[r].txt
                  /\ req'[r].resp.kind \in {req[r].resp.kind, "error"}

\* C24, as the specification states it: a request goes through received,
\* authorized, sourced, extracted, translating, assembled and delivered in
\* that order, one state at a time and never backwards, or goes to failed;
\* failed is terminal: after a failure no extraction, model invocation, PUT
\* or success response of that request occurs; delivered is entered from
\* assembled only.
C24_StateMachineOrder == [][\A r \in Reqs : MachineStep(r)]_vars

\* what the model may answer for chunk c
AnswersFor(c) == {Tr(c, v) : v \in Variants} \cup {PayloadStr}

\* everything derived for request r comes from r's own input and from the
\* answers to r's own calls
OwnData(r) ==
    LET q == req[r]
    IN  /\ (q.file.present /\ q.pc \in {"integrity", "translator", "dispatch", "await_work"})
              => q.raw = q.file.data
        /\ (q.file.present /\ q.wk # "none") => q.raw = q.file.data
        /\ q.wk \in {"translate", "gather", "encode", "put_host", "put", "returned"}
              => q.txt = DecodeIgnore(q.raw)
        /\ q.tasks # <<>> =>
              /\ q.tchunks = _chunks(q.txt, env.chunk_chars)
              /\ \A k \in 1..Len(q.tasks) :
                    q.tasks[k].st = "done" => q.tasks[k].val \in AnswersFor(q.tchunks[k])
        /\ TranslateReturned(q) => q.translated_text = BackendOutput(q)
        /\ q.wk \in {"put_host", "put", "returned"} =>
              /\ q.out_bytes = EncodeUtf8(q.translated_text)
              /\ q.out_name = EffectiveName(q) \o <<".", "translated">>
                                  \o FormatExt(q.preserve_format)
        /\ q.resp.kind = "bytes" => q.resp = BytesResp(q.out_bytes, q.out_name, q.out_mime)
        /\ q.resp.kind = "succeeded" => q.resp = SucceededResp(q)
        /\ q.resp.kind = "queued" => q.resp = QueuedResp(q)
        /\ \A j \in 1..Len(q.net) :
              LET c == q.net[j]
              IN  /\ c.op \in {"HEAD", "GET"} => c.url = q.file_url
                  /\ c.op = "INVOKE" => c.chunk = q.tchunks[c.idx]
                  /\ c.op = "PUT" => (c.url = q.output_url /\ c.data = q.out_bytes)

C25_OwnDataOnly == \A r \in Reqs : req[r].entry = "translate_file" => OwnData(r)

\* a step is a step of one request, and leaves the other request as it was
C25_OneRequestPerStep ==
    \E r \in Reqs : \A o \in Reqs \ {r} : req'[o] = req[o]

\* C25: with two requests interleaved in any order at their suspension
\* points, the extracted text, the chunks, the result bytes and the response
\* of each are what its own input and the answers to its own calls give, as
\* when it runs alone: no step of one request reads or changes what belongs
\* to the other.
C25_RequestsIsolated ==
    /\ []C25_OwnDataOnly
    /\ [][C25_OneRequestPerStep]_vars

C25_Witness ==
    /\ req[1].wk = "gather" /\ req[2].wk = "gather"
    /\ req[1].tasks[1].st = "done" /\ req[1].tasks[2].st = "pending"
    /\ req[2].tasks[1].st = "done"
    /\ req[1].order = <<1>>
    /\ req[1].txt = <<97, 98, 97>> /\ req[2].txt = <<98>>

\* The checks of the handler that the request itself decides, in the order
\* of the specification: 1 authentication, 2 presence of a source,
\* 3 extension allow-list, 4 host of file_url; 0 when it violates none.
FirstViolated(q) ==
    IF ~BearerOfSecret(q.authorization) THEN 1
    ELSE IF ~HasUrl(q) /\ ~HasUpload(q) THEN 2
    ELSE IF ext_from_name(EffectiveName(q)) \notin ALLOWED_EXTS THEN 3
    ELSE IF HasUrl(q) /\ MatchesNoPattern(q.file_url) THEN 4
    ELSE 0

\* the step at which check n is made, and the status of its failure
CheckedAt(n) == <<"received", "authorized", "named", "url_host">>[n]

StatusOf(q, n) ==
    <<IF NoBearer(q.authorization) THEN 401 ELSE 403, 400, 415, 400>>[n]

\* the steps of the handler that come before the check made at step p
StepsBefore(p) ==
    CASE p = "received" -> {}
      [] p = "authorized" -> {"received"}
      [] p = "named" -> {"received", "authorized"}
      [] p = "url_host" -> {"received", "authorized", "named"}
      [] p = "head" -> {"received", "authorized", "named", "url_host"}
      [] p \in {"source", "fetch_host", "get", "stream"} ->
             {"received", "authorized", "named", "url_host", "head"}
      [] p = "integrity" ->
             {"received", "authorized", "named", "url_host", "head", "source",
              "fetch_host", "get", "stream"}
      [] OTHER -> {}

\* C26, as the specification states it: the checks are made in the order
\* authentication, source, extension, file_url host, declared size,
\* measured size or fetch failure, integrity; a request that violates
\* several of them is answered with the status of the first, and no check
\* is made after one has failed.
C26_FirstFailingCheckAnswers ==
    \A r \in Reqs :
        LET q == req[r]
            n == FirstViolated(q)
        IN  q.entry = "translate_file" =>
                /\ n # 0 =>
                      /\ q.pc \in StepsBefore(CheckedAt(n)) \cup {CheckedAt(n), "responded"}
                      /\ q.pc = "responded" =>
                            /\ q.failed_at = CheckedAt(n)
                            /\ q.resp = ErrorResp(StatusOf(q, n))
                /\ (q.pc = "responded" /\ q.failed_at = "head" /\ q.resp.status = 413) =>
                      (Calls(r, "GET") = <<>> /\ q.raw = <<>>)
                /\ (q.pc = "responded" /\ q.failed_at = "integrity") =>
                      (q.size <= env.max_bytes /\ Len(q.raw) <= env.max_bytes
                          /\ q.resp = ErrorResp(400))
                /\ (q.pc = "responded" /\ q.failed_at \in {"source", "stream"}) =>
                      (q.size <= env.max_bytes /\ q.resp = ErrorResp(413))
                /\ (q.pc = "responded" /\ q.resp.kind = "error"
                        /\ q.failed_at \in StepsBefore("integrity") \cup {"integrity"}) =>
                      (q.wk = "none" /\ q.translator = "none")

(***************************************************************************)
(* Rejected requests (main.py:105-133 against 135-155).                    *)
(***************************************************************************)
\* the steps of the handler at which a check of the request is made
ValidationSteps == StepsBefore("integrity") \cup {"integrity"}

\* request q was answered with the error of one of the checks
Rejected(q) ==
    /\ q.entry = "translate_file"
    /\ q.pc = "responded"
    /\ q.resp.kind = "error"
    /\ q.failed_at \in ValidationSteps

\* the network reads of the source that precede the step at which q failed
ReadsBefore(q) ==
    LET head == [op |-> "HEAD", url |-> q.file_url]
        get == [op |-> "GET", url |-> q.file_url]
    IN  IF ~HasUrl(q) \/ q.failed_at \in StepsBefore("head") THEN <<>>
        ELSE IF q.failed_at = "head" \/ HasUpload(q) THEN <<head>>
        ELSE IF q.failed_at \in {"source", "fetch_host"} THEN <<head>>
        ELSE <<head, get>>

\* C27: a request rejected by the authentication, source, extension,
\* file_url host, size or integrity check, in either return mode, has no
\* translator constructed, no invocation, no background task, no job
\* identifier and no PUT: its only effects are the HEAD and GET of file_url
\* made before the check that failed.
C27_RejectedHasNoEffects ==
    \A r \in Reqs :
        LET q == req[r]
        IN  Rejected(q) =>
                /\ q.translator = "none"
                /\ q.wk = "none" /\ q.raised_at = "none"
                /\ q.tasks = <<>> /\ q.tchunks = <<>>
                /\ q.job_id = 0
                /\ Calls(r, "INVOKE") = <<>>
                /\ Calls(r, "PUT") = <<>>
                /\ q.net = ReadsBefore(q)
                /\ q.out_bytes = <<>> /\ q.translated_text = <<>>

C27_Witness ==
    \E r \in Reqs :
        /\ Rejected(req[r])
        /\ req[r].failed_at = "integrity"
        /\ req[r].return_mode = "async"
        /\ Len(req[r].net) = 2
        /\ req[r].resp = ErrorResp(400)

(***************************************************************************)
(* Termination and size of the result of _chunks (translator.py:29-39).    *)
(***************************************************************************)
\* the least integer not below a / b, for b > 0
CeilDiv(a, b) == (a + b - 1) \div b

\* the stride the specification declares: n - floor(0.05 * n)
DeclaredStride == chunk_chars - DeclaredOverlap

\* what _chunks has returned
C28_ChunkCount ==
    ck_pc = "done" =>
        /\ text # <<>> => \A k \in 1..NChunks : chunks[k] # <<>>
        /\ Len(text) > chunk_chars => NChunks = CeilDiv(Len(text), DeclaredStride)

\* a pass of the loop moves i forward by at least one position, and i never
\* passes the end of the text by a whole stride
C28_LoopAdvances ==
    (ck_pc = "loop" /\ ck_pc' = "loop" /\ chunks' # chunks) =>
        /\ ck_i' >= ck_i + 1
        /\ ck_i' = ck_i + DeclaredStride
        /\ ck_i < Len(text)
        /\ NChunks' = NChunks + 1

\* C28: for every budget of at least 1 and every text the loop of _chunks
\* terminates, every chunk returned is non-empty when the text is
\* non-empty, and a text of length L greater than the budget n gives exactly
\* ceil(L / (n - floor(0.05 * n))) chunks.
C28_TerminatesWithCeilChunks ==
    /\ <>(ck_pc = "done")
    /\ []C28_ChunkCount
    /\ [][C28_LoopAdvances]_vars

C28_Witness ==
    /\ ck_pc = "done"
    /\ Len(text) > chunk_chars
    /\ DeclaredOverlap >= 1
    /\ Len(text) % DeclaredStride # 0
    /\ NChunks >= 3
    /\ NChunks = CeilDiv(Len(text), DeclaredStride)

(***************************************************************************)
(* The queued answer of async mode (main.py:152-155) against the checks.   *)
(***************************************************************************)
\* the bytes of the source of q, read to their end
SourceBytes(q) == IF HasUpload(q) THEN q.file.data ELSE Concat(q.fchunks)

\* the checks of the request as the specification states them:
\* authentication, extension in the allow-list, hosts of the URLs given in
\* the allow-list, declared and measured size within the ceiling, digest
ChecksPassed(q) ==
    /\ BearerOfSecret(q.authorization)
    /\ ext_from_name(EffectiveName(q)) \in ALLOWED_EXTS
    /\ HasUrl(q) => ~MatchesNoPattern(q.file_url)
    /\ q.output_url # <<>> => ~MatchesNoPattern(q.output_url)
    /\ ~DeclaredTooLarge(q.size)
    /\ ~TooLarge(Len(q.raw))
    /\ ~DigestMismatch(q)

\* C29, as the specification states it: in async mode the queued answer is
\* given only after the authentication, extension, host, declared-size,
\* measured-size and integrity checks have passed and the source has been
\* read to its end; a request failing one of them is answered 4xx and gets
\* no job identifier; the background work of a queued job starts from the
\* complete, verified bytes.
C29_QueuedOnlyAfterChecks ==
    \A r \in Reqs :
        LET q == req[r]
        IN  (q.entry = "translate_file" /\ q.return_mode = "async") =>
                /\ (q.resp.kind = "queued" \/ q.wk # "none" \/ q.job_id # 0) =>
                      /\ ChecksPassed(q)
                      /\ q.raw = SourceBytes(q)
                      /\ ~HasUpload(q) => Len(Calls(r, "GET")) = 1
                      /\ q.resp = QueuedResp(q)
                /\ (Rejected(q) /\ q.resp.status # 500) =>
                      /\ q.resp.status \in {400, 401, 403, 413, 415}
                      /\ q.job_id = 0 /\ q.wk = "none"
                /\ q.pc = "responded" => q.resp.kind \in {"queued", "error"}

\* C30, as the specification states it: two distinct async requests that
\* the process has queued carry distinct job identifiers, whatever the
\* times at which they were handled.
C30_JobIdsDistinct ==
    \A r1, r2 \in Reqs :
        (r1 # r2 /\ req[r1].resp.kind = "queued" /\ req[r2].resp.kind = "queued") =>
            req[r1].resp.job_id # req[r2].resp.job_id

====
